---- MODULE Spec2Model ----
(***************************************************************************)
(* The simplex view (src/src/views/Simplex.vue) and the dual view          *)
(* (src/unnamed/part_001) of mosfazli-x/linear-programming.                *)
(*                                                                         *)
(* Indices.  The code indexes arrays from 0, TLA+ sequences from 1: a      *)
(* code index i is the model index i + 1.  Tableau row 1 is the objective  *)
(* row (code row 0), tableau row i + 1 is constraint i (i = 1..m).         *)
(*                                                                         *)
(* Numbers.  A tableau entry is a JavaScript number.  It is modelled as an *)
(* exact rational <<n, d>> in lowest terms with d > 0; the rounding of     *)
(* IEEE doubles is not modelled.  The two non-numbers the code can hold    *)
(* are kept apart from the rationals: NaN and undefined (an array read     *)
(* past its end).                                                          *)
(***************************************************************************)
EXTENDS Integers, Sequences, FiniteSets, TLC

VARIABLES constraintsCount, variablesCount, objectiveType,
          objectiveCoefficients, constraints, steps, currentStep,
          solution, iteration, pc

vars == <<constraintsCount, variablesCount, objectiveType,
          objectiveCoefficients, constraints, steps, currentStep,
          solution, iteration, pc>>

program == <<constraintsCount, variablesCount, objectiveType,
             objectiveCoefficients, constraints>>

(***************************************************************************)
(* Bounds of the model.                                                    *)
(***************************************************************************)
MaxVars == 2
MaxCons == 2
MaxCoef == 2
MaxIterations == 8
MaxCount == 3

(***************************************************************************)
(* JavaScript numbers.                                                     *)
(***************************************************************************)
NaN == <<0, 0>>
Undefined == <<0, -1>>

IsNum(x) == x[2] > 0

Abs(k) == IF k < 0 THEN -k ELSE k

RECURSIVE GCD(_, _)
GCD(a, b) == IF b = 0 THEN a ELSE GCD(b, a % b)

\* n / d in lowest terms; the code never divides by zero (the divisor is a
\* pivot value, found > 0 at Simplex.vue:230, or non-zero by assumption).
Rat(n, d) ==
    IF d = 0 THEN NaN
    ELSE LET g == GCD(Abs(n), Abs(d))
             s == IF d < 0 THEN -1 ELSE 1
         IN  <<(s * n) \div g, (s * d) \div g>>

Num(k) == <<k, 1>>

RNeg(a) == IF IsNum(a) THEN <<-a[1], a[2]>> ELSE NaN

RSub(a, b) ==
    IF IsNum(a) /\ IsNum(b) THEN Rat(a[1] * b[2] - b[1] * a[2], a[2] * b[2])
    ELSE NaN

RMul(a, b) ==
    IF IsNum(a) /\ IsNum(b) THEN Rat(a[1] * b[1], a[2] * b[2]) ELSE NaN

RDiv(a, b) ==
    IF IsNum(a) /\ IsNum(b) THEN Rat(a[1] * b[2], a[2] * b[1]) ELSE NaN

\* a < b and a <= b: false as soon as one side is NaN or undefined.
RLt(a, b) == IsNum(a) /\ IsNum(b) /\ a[1] * b[2] < b[1] * a[2]
RLe(a, b) == IsNum(a) /\ IsNum(b) /\ a[1] * b[2] <= b[1] * a[2]

Zero == Num(0)
One == Num(1)

(***************************************************************************)
(* The state after construction: Simplex.vue:18-24, 41-42, 298.            *)
(***************************************************************************)
Relations == {"<=", "=", ">="}
ObjectiveTypes == {"maximize", "minimize"}

NullSolution == [status |-> "null"]

initializeObjectiveCoefficients(n) == [j \in 1..n |-> 0]

initializeConstraints(m, n) ==
    [i \in 1..m |-> [coefficients |-> [j \in 1..n |-> 0],
                     relation |-> "<=",
                     value |-> 0]]

(***************************************************************************)
(* createInitialTableau: Simplex.vue:188-215.  A coefficient read past the *)
(* end of a constraint's array is undefined.                               *)
(***************************************************************************)
\* A missing coefficient read as 0.
Coefficient_ZeroFill(c, j) ==
    IF j \in DOMAIN c.coefficients THEN Num(c.coefficients[j]) ELSE Zero

Coefficient(c, j) ==
    IF j \in DOMAIN c.coefficients THEN Num(c.coefficients[j]) ELSE Undefined

\* createInitialTableau giving a >= constraint a surplus column of -1.
createInitialTableau_Surplus ==
    LET rows == constraintsCount + 1
        cols == variablesCount + constraintsCount + 1
    IN  [r \in 1..rows |-> [c \in 1..cols |->
            IF r = 1
            THEN IF c <= variablesCount
                 THEN IF objectiveType = "maximize"
                      THEN RNeg(Num(objectiveCoefficients[c]))
                      ELSE Num(objectiveCoefficients[c])
                 ELSE Zero
            ELSE IF c <= variablesCount THEN Coefficient(constraints[r - 1], c)
                 ELSE IF c = cols THEN Num(constraints[r - 1].value)
                 ELSE IF c = variablesCount + (r - 1)
                      THEN IF constraints[r - 1].relation = ">=" THEN Num(-1) ELSE One
                 ELSE Zero]]

createInitialTableau ==
    LET rows == constraintsCount + 1
        cols == variablesCount + constraintsCount + 1
    IN  [r \in 1..rows |-> [c \in 1..cols |->
            IF r = 1
            THEN IF c <= variablesCount
                 THEN IF objectiveType = "maximize"
                      THEN RNeg(Num(objectiveCoefficients[c]))
                      ELSE Num(objectiveCoefficients[c])
                 ELSE Zero
            ELSE IF c <= variablesCount THEN Coefficient(constraints[r - 1], c)
                 ELSE IF c = cols THEN Num(constraints[r - 1].value)
                 ELSE IF c = variablesCount + (r - 1) THEN One
                 ELSE Zero]]

(***************************************************************************)
(* canImprove, findPivotColumn, findPivotRow: Simplex.vue:217-240.         *)
(***************************************************************************)
NoPivotRow == -1

canImprove(tableau) ==
    \E j \in 1..(Len(tableau[1]) - 1) : RLt(tableau[1][j], Zero)

\* findIndex: the first index whose entry is negative.
findPivotColumn(tableau) ==
    CHOOSE j \in 1..(Len(tableau[1]) - 1) :
        /\ RLt(tableau[1][j], Zero)
        /\ \A k \in 1..(j - 1) : ~RLt(tableau[1][k], Zero)

\* The loop of findPivotRow from row i on; hasMin is FALSE while minRatio is
\* still Infinity.
RECURSIVE PivotRowFrom(_, _, _, _, _, _)
PivotRowFrom(tableau, pivotColumn, i, hasMin, minRatio, pivotRow) ==
    IF i > Len(tableau) THEN pivotRow
    ELSE IF RLe(tableau[i][pivotColumn], Zero)
         THEN PivotRowFrom(tableau, pivotColumn, i + 1, hasMin, minRatio, pivotRow)
         ELSE LET ratio == RDiv(tableau[i][Len(tableau[1])], tableau[i][pivotColumn])
              IN  IF (IF hasMin THEN RLt(ratio, minRatio) ELSE IsNum(ratio))
                  THEN PivotRowFrom(tableau, pivotColumn, i + 1, TRUE, ratio, i)
                  ELSE PivotRowFrom(tableau, pivotColumn, i + 1, hasMin, minRatio, pivotRow)

\* findPivotRow skipping only the rows whose entry is zero.
RECURSIVE PivotRowSkipZeroFrom(_, _, _, _, _, _)
PivotRowSkipZeroFrom(tableau, pivotColumn, i, hasMin, minRatio, pivotRow) ==
    IF i > Len(tableau) THEN pivotRow
    ELSE IF tableau[i][pivotColumn] = Zero
         THEN PivotRowSkipZeroFrom(tableau, pivotColumn, i + 1, hasMin, minRatio, pivotRow)
         ELSE LET ratio == RDiv(tableau[i][Len(tableau[1])], tableau[i][pivotColumn])
              IN  IF (IF hasMin THEN RLt(ratio, minRatio) ELSE IsNum(ratio))
                  THEN PivotRowSkipZeroFrom(tableau, pivotColumn, i + 1, TRUE, ratio, i)
                  ELSE PivotRowSkipZeroFrom(tableau, pivotColumn, i + 1, hasMin, minRatio, pivotRow)

findPivotRow_SkipZeroOnly(tableau, pivotColumn) ==
    PivotRowSkipZeroFrom(tableau, pivotColumn, 2, FALSE, Zero, NoPivotRow)

\* findPivotRow with ratio <= minRatio: the last row of a tie wins.
RECURSIVE PivotRowLastTieFrom(_, _, _, _, _, _)
PivotRowLastTieFrom(tableau, pivotColumn, i, hasMin, minRatio, pivotRow) ==
    IF i > Len(tableau) THEN pivotRow
    ELSE IF RLe(tableau[i][pivotColumn], Zero)
         THEN PivotRowLastTieFrom(tableau, pivotColumn, i + 1, hasMin, minRatio, pivotRow)
         ELSE LET ratio == RDiv(tableau[i][Len(tableau[1])], tableau[i][pivotColumn])
              IN  IF (IF hasMin THEN RLe(ratio, minRatio) ELSE IsNum(ratio))
                  THEN PivotRowLastTieFrom(tableau, pivotColumn, i + 1, TRUE, ratio, i)
                  ELSE PivotRowLastTieFrom(tableau, pivotColumn, i + 1, hasMin, minRatio, pivotRow)

findPivotRow_LastTie(tableau, pivotColumn) ==
    PivotRowLastTieFrom(tableau, pivotColumn, 2, FALSE, Zero, NoPivotRow)

\* findPivotRow with ratio > minRatio: the row of the largest ratio wins.
RECURSIVE PivotRowLargestFrom(_, _, _, _, _, _)
PivotRowLargestFrom(tableau, pivotColumn, i, hasMin, minRatio, pivotRow) ==
    IF i > Len(tableau) THEN pivotRow
    ELSE IF RLe(tableau[i][pivotColumn], Zero)
         THEN PivotRowLargestFrom(tableau, pivotColumn, i + 1, hasMin, minRatio, pivotRow)
         ELSE LET ratio == RDiv(tableau[i][Len(tableau[1])], tableau[i][pivotColumn])
              IN  IF (IF hasMin THEN RLt(minRatio, ratio) ELSE IsNum(ratio))
                  THEN PivotRowLargestFrom(tableau, pivotColumn, i + 1, TRUE, ratio, i)
                  ELSE PivotRowLargestFrom(tableau, pivotColumn, i + 1, hasMin, minRatio, pivotRow)

findPivotRow_LargestRatio(tableau, pivotColumn) ==
    PivotRowLargestFrom(tableau, pivotColumn, 2, FALSE, Zero, NoPivotRow)

findPivotRow(tableau, pivotColumn) ==
    PivotRowFrom(tableau, pivotColumn, 2, FALSE, Zero, NoPivotRow)

(***************************************************************************)
(* performPivot: Simplex.vue:242-259.  The code writes every entry of the  *)
(* tableau; <<>> \o f is f written out as an array, entry by entry.        *)
(***************************************************************************)
\* performPivot whose second loop starts at the first constraint row: the
\* objective row is left as it was.
performPivot_SkipObjectiveRow(tableau, pivotRow, pivotColumn) ==
    LET pivotValue == tableau[pivotRow][pivotColumn]
        normalized == <<>> \o [j \in 1..Len(tableau[1]) |->
                                  RDiv(tableau[pivotRow][j], pivotValue)]
    IN  <<>> \o [i \in 1..Len(tableau) |->
            IF i = pivotRow THEN normalized
            ELSE IF i = 1 THEN <<>> \o tableau[i]
            ELSE LET factor == tableau[i][pivotColumn]
                 IN  <<>> \o [j \in 1..Len(tableau[1]) |->
                                 RSub(tableau[i][j], RMul(factor, normalized[j]))]]

performPivot(tableau, pivotRow, pivotColumn) ==
    LET pivotValue == tableau[pivotRow][pivotColumn]
        normalized == <<>> \o [j \in 1..Len(tableau[1]) |->
                                  RDiv(tableau[pivotRow][j], pivotValue)]
    IN  <<>> \o [i \in 1..Len(tableau) |->
            IF i = pivotRow THEN normalized
            ELSE LET factor == tableau[i][pivotColumn]
                 IN  <<>> \o [j \in 1..Len(tableau[1]) |->
                                 RSub(tableau[i][j], RMul(factor, normalized[j]))]]

(***************************************************************************)
(* extractSolution: Simplex.vue:261-295.                                   *)
(***************************************************************************)
\* The inner loop over the constraint rows from row i on; its value is oneRow
\* when the loop ends or breaks.
RECURSIVE OneRowFrom(_, _, _, _, _)
OneRowFrom(tableau, j, i, hasOne, oneRow) ==
    IF i > Len(tableau) THEN oneRow
    ELSE IF tableau[i][j] = One
         THEN IF hasOne THEN NoPivotRow
              ELSE OneRowFrom(tableau, j, i + 1, TRUE, i)
         ELSE IF tableau[i][j] # Zero THEN NoPivotRow
              ELSE OneRowFrom(tableau, j, i + 1, hasOne, oneRow)

extractSolution(tableau) ==
    LET cols == Len(tableau[1])
    IN  [status |-> "optimal",
         solution |-> [j \in 1..variablesCount |->
                          LET oneRow == OneRowFrom(tableau, j, 2, FALSE, NoPivotRow)
                          IN  IF oneRow # NoPivotRow THEN tableau[oneRow][cols]
                              ELSE Zero],
         objectiveValue |-> IF objectiveType = "maximize"
                            THEN RNeg(tableau[1][cols])
                            ELSE tableau[1][cols]]

(***************************************************************************)
(* solveSimplexMethod: Simplex.vue:81-131.                                 *)
(***************************************************************************)
Description(label, args) == [label |-> label, args |-> args]

InitialStep(tableau) ==
    [tableau |-> tableau, description |-> Description("Initial tableau", <<>>)]

UnboundedStep(tableau) ==
    [tableau |-> tableau,
     description |-> Description("Problem is unbounded", <<>>)]

SelectedStep(tableau, pivotRow, pivotColumn, iter) ==
    [tableau |-> tableau, pivotRow |-> pivotRow, pivotCol |-> pivotColumn,
     description |-> Description("Iteration: Selected pivot element at row, column",
                                 <<iter, pivotRow, pivotColumn>>)]

AfterStep(tableau, iter) ==
    [tableau |-> tableau,
     description |-> Description("Iteration: After pivot operation", <<iter>>)]

FinalStep(tableau) ==
    [tableau |-> tableau,
     description |-> Description("Final tableau - Optimal solution found", <<>>)]

\* The loop with snapshots that are not copies: the step pushed before the
\* pivot holds the tableau the pivot then rewrites in place.
RECURSIVE SolveLoop_Aliased(_, _, _)
SolveLoop_Aliased(currentTableau, iter, recorded) ==
    IF ~canImprove(currentTableau)
    THEN [returned |-> TRUE,
          steps |-> Append(recorded, FinalStep(currentTableau)),
          result |-> extractSolution(currentTableau),
          iteration |-> iter]
    ELSE LET pivotColumn == findPivotColumn(currentTableau)
             pivotRow == findPivotRow(currentTableau, pivotColumn)
         IN  IF pivotRow = NoPivotRow
             THEN [returned |-> TRUE,
                   steps |-> Append(recorded, UnboundedStep(currentTableau)),
                   result |-> [status |-> "unbounded"],
                   iteration |-> iter]
             ELSE IF iter > MaxIterations
             THEN [returned |-> FALSE,
                   steps |-> recorded,
                   result |-> NullSolution,
                   iteration |-> iter]
             ELSE LET pivoted == performPivot(currentTableau, pivotRow, pivotColumn)
                  IN  SolveLoop_Aliased(pivoted, iter + 1,
                                recorded \o
                                <<SelectedStep(pivoted, pivotRow, pivotColumn, iter),
                                  AfterStep(pivoted, iter)>>)

\* One pass of the while loop at Simplex.vue:95-122 and what follows it.  The
\* loop has no iteration cap: a run that needs more than MaxIterations pivots
\* is reported as still looping (returned = FALSE).
RECURSIVE SolveLoop(_, _, _)
SolveLoop(currentTableau, iter, recorded) ==
    IF ~canImprove(currentTableau)
    THEN [returned |-> TRUE,
          steps |-> Append(recorded, FinalStep(currentTableau)),
          result |-> extractSolution(currentTableau),
          iteration |-> iter]
    ELSE LET pivotColumn == findPivotColumn(currentTableau)
             pivotRow == findPivotRow(currentTableau, pivotColumn)
         IN  IF pivotRow = NoPivotRow
             THEN [returned |-> TRUE,
                   steps |-> Append(recorded, UnboundedStep(currentTableau)),
                   result |-> [status |-> "unbounded"],
                   iteration |-> iter]
             ELSE IF iter > MaxIterations
             THEN [returned |-> FALSE,
                   steps |-> recorded,
                   result |-> NullSolution,
                   iteration |-> iter]
             ELSE LET pivoted == performPivot(currentTableau, pivotRow, pivotColumn)
                  IN  SolveLoop(pivoted, iter + 1,
                                recorded \o
                                <<SelectedStep(currentTableau, pivotRow, pivotColumn, iter),
                                  AfterStep(pivoted, iter)>>)

\* steps.value = [] (line 82), then the initial tableau and the loop.
solveSimplexMethod ==
    LET initialTableau == createInitialTableau
    IN  SolveLoop(initialTableau, 1, <<InitialStep(initialTableau)>>)

(***************************************************************************)
(* The handlers.                                                           *)
(***************************************************************************)
\* calculateSolution without line 82: the steps of a new solve are appended to
\* those of the last one.
calculateSolution_KeepSteps ==
    /\ pc = "idle"
    /\ LET run == solveSimplexMethod
       IN  /\ steps' = steps \o run.steps
           /\ currentStep' = 0
           /\ iteration' = run.iteration
           /\ solution' = IF run.returned THEN run.result ELSE solution
           /\ pc' = IF run.returned THEN "idle" ELSE "solving"
    /\ UNCHANGED program

\* calculateSolution: Simplex.vue:300-302, with solveSimplexMethod (81-131).
calculateSolution ==
    /\ pc = "idle"
    /\ LET run == solveSimplexMethod
       IN  /\ steps' = run.steps
           /\ currentStep' = 0
           /\ iteration' = run.iteration
           /\ solution' = IF run.returned THEN run.result ELSE solution
           /\ pc' = IF run.returned THEN "idle" ELSE "solving"
    /\ UNCHANGED program

\* nextStep without its test.
nextStep_NoGuard ==
    /\ pc = "idle"
    /\ currentStep' = currentStep + 1
    /\ UNCHANGED <<program, steps, solution, iteration, pc>>

\* Simplex.vue:155-173.  currentStep is the code's 0-based index.
nextStep ==
    /\ pc = "idle"
    /\ currentStep' = IF currentStep < Len(steps) - 1 THEN currentStep + 1
                      ELSE currentStep
    /\ UNCHANGED <<program, steps, solution, iteration, pc>>

previousStep ==
    /\ pc = "idle"
    /\ currentStep' = IF currentStep > 0 THEN currentStep - 1 ELSE currentStep
    /\ UNCHANGED <<program, steps, solution, iteration, pc>>

goToFirstStep ==
    /\ pc = "idle"
    /\ currentStep' = 0
    /\ UNCHANGED <<program, steps, solution, iteration, pc>>

goToLastStep ==
    /\ pc = "idle"
    /\ currentStep' = Len(steps) - 1
    /\ UNCHANGED <<program, steps, solution, iteration, pc>>

\* updateConstraintsCount: Simplex.vue:45-57.  The count has no upper limit
\* in the code; the model stops adding at MaxCount.
updateConstraintsCount(increment) ==
    /\ pc = "idle"
    /\ increment => constraintsCount < MaxCount
    /\ IF increment
       THEN /\ constraintsCount' = constraintsCount + 1
            /\ constraints' = Append(constraints,
                   [coefficients |-> [j \in 1..variablesCount |-> 0],
                    relation |-> "<=",
                    value |-> 0])
       ELSE IF constraintsCount > 1
            THEN /\ constraintsCount' = constraintsCount - 1
                 /\ constraints' = SubSeq(constraints, 1, Len(constraints) - 1)
            ELSE UNCHANGED <<constraintsCount, constraints>>
    /\ UNCHANGED <<variablesCount, objectiveType, objectiveCoefficients,
                   steps, currentStep, solution, iteration, pc>>

\* updateVariablesCount that leaves the constraints as they are.
updateVariablesCount_ObjectiveOnly(increment) ==
    /\ pc = "idle"
    /\ increment => variablesCount < MaxCount
    /\ IF increment
       THEN /\ variablesCount' = variablesCount + 1
            /\ objectiveCoefficients' = Append(objectiveCoefficients, 0)
       ELSE IF variablesCount > 1
            THEN /\ variablesCount' = variablesCount - 1
                 /\ objectiveCoefficients' =
                        SubSeq(objectiveCoefficients, 1, Len(objectiveCoefficients) - 1)
            ELSE UNCHANGED <<variablesCount, objectiveCoefficients>>
    /\ UNCHANGED <<constraintsCount, constraints, objectiveType, steps,
                   currentStep, solution, iteration, pc>>

\* updateVariablesCount: Simplex.vue:59-73.
updateVariablesCount(increment) ==
    /\ pc = "idle"
    /\ increment => variablesCount < MaxCount
    /\ IF increment
       THEN /\ variablesCount' = variablesCount + 1
            /\ objectiveCoefficients' = Append(objectiveCoefficients, 0)
            /\ constraints' = [i \in DOMAIN constraints |->
                   [constraints[i] EXCEPT
                       !.coefficients = Append(constraints[i].coefficients, 0)]]
       ELSE IF variablesCount > 1
            THEN /\ variablesCount' = variablesCount - 1
                 /\ objectiveCoefficients' =
                        SubSeq(objectiveCoefficients, 1, Len(objectiveCoefficients) - 1)
                 /\ constraints' = [i \in DOMAIN constraints |->
                        [constraints[i] EXCEPT
                            !.coefficients = SubSeq(constraints[i].coefficients, 1,
                                                    Len(constraints[i].coefficients) - 1)]]
            ELSE UNCHANGED <<variablesCount, objectiveCoefficients, constraints>>
    /\ UNCHANGED <<constraintsCount, objectiveType, steps, currentStep,
                   solution, iteration, pc>>

(***************************************************************************)
(* The programs the form holds when a handler runs.  The inputs of the     *)
(* form (v-model, Simplex.vue:342-376) write any number into a coefficient *)
(* or a value, any of the three relations and either objective type; they  *)
(* never change the length of an array.                                    *)
(***************************************************************************)
Program(n, m, type, objective, rows) ==
    [variablesCount |-> n, constraintsCount |-> m, objectiveType |-> type,
     objectiveCoefficients |-> objective, constraints |-> rows]

Row(coefficients, relation, value) ==
    [coefficients |-> coefficients, relation |-> relation, value |-> value]

\* The form as constructed: 2 variables, 2 constraints, all zero.
ConstructedProgram ==
    Program(2, 2, "maximize", initializeObjectiveCoefficients(2),
            initializeConstraints(2, 2))

\* maximize 3 x1 + 2 x2 subject to x1 + x2 <= 4, x1 + 3 x2 <= 6.
ExampleOne ==
    Program(2, 2, "maximize", <<3, 2>>,
            <<Row(<<1, 1>>, "<=", 4), Row(<<1, 3>>, "<=", 6)>>)

\* maximize x1 subject to x1 - x2 <= 1.
ExampleTwo ==
    Program(2, 1, "maximize", <<1, 0>>, <<Row(<<1, -1>>, "<=", 1)>>)

\* maximize 5 x1 + 4 x2 subject to 2 x1 + x2 <= 10, x1 + 3 x2 <= 15.
ExampleThree ==
    Program(2, 2, "maximize", <<5, 4>>,
            <<Row(<<2, 1>>, "<=", 10), Row(<<1, 3>>, "<=", 15)>>)

\* minimize -x1 - 2 x2 subject to -x1 + x2 >= 2, x2 = 3.
ExampleFour ==
    Program(2, 2, "minimize", <<-1, -2>>,
            <<Row(<<-1, 1>>, ">=", 2), Row(<<0, 1>>, "=", 3)>>)

\* maximize 2 x1 + 2 x2 + x3 + 3 x4 subject to 4 x1 + x2 + 3 x3 + x4 <= 6,
\* 4 x1 + 3 x2 + x3 <= 1.
ExampleFive ==
    Program(4, 2, "maximize", <<2, 2, 1, 3>>,
            <<Row(<<4, 1, 3, 1>>, "<=", 6), Row(<<4, 3, 1, 0>>, "<=", 1)>>)

Examples ==
    {ConstructedProgram, ExampleOne, ExampleTwo, ExampleThree, ExampleFour}

\* What construction leaves besides the program: Simplex.vue:23-24, 298.
InitView ==
    /\ steps = <<>>
    /\ currentStep = 0
    /\ solution = NullSolution
    /\ iteration = 0
    /\ pc = "idle"

InitFrom(programs) ==
    /\ \E p \in programs :
          /\ variablesCount = p.variablesCount
          /\ constraintsCount = p.constraintsCount
          /\ objectiveType = p.objectiveType
          /\ objectiveCoefficients = p.objectiveCoefficients
          /\ constraints = p.constraints
    /\ InitView

\* Every program with n in N variables and m in M constraints over the given
\* values, each constraint holding exactly n coefficients.
InitOver(N, M, objective, coefficient, relation, value) ==
    /\ \E n \in N, m \in M :
          /\ variablesCount = n
          /\ constraintsCount = m
          /\ objectiveType \in ObjectiveTypes
          /\ objectiveCoefficients \in [1..n -> objective]
          /\ constraints \in [1..m -> [coefficients : [1..n -> coefficient],
                                       relation : relation,
                                       value : value]]
    /\ InitView

(***************************************************************************)
(* Spec: the simplex view with every handler, on the constructed form and  *)
(* on the worked examples.                                                 *)
(***************************************************************************)
Init == InitFrom(Examples)

Next ==
    \/ calculateSolution
    \/ nextStep
    \/ previousStep
    \/ goToFirstStep
    \/ goToLastStep
    \/ \E increment \in BOOLEAN : updateConstraintsCount(increment)
    \/ \E increment \in BOOLEAN : updateVariablesCount(increment)

Spec == Init /\ [][Next]_vars

(***************************************************************************)
(* SolveSpec: the solver and the navigation on every program of at most    *)
(* MaxVars variables and MaxCons constraints with small coefficients, and  *)
(* on the worked examples.  No handler of it changes the program.          *)
(***************************************************************************)
CoefficientValues == -1..MaxCoef
ObjectiveValues == {-1, MaxCoef}
ValueValues == {-1, 0, MaxCoef}

InitSolve ==
    \/ InitOver(1..MaxVars, 1..MaxCons, ObjectiveValues, CoefficientValues,
                {"<="}, ValueValues)
    \/ InitFrom(Examples)

NextSolve ==
    \/ calculateSolution
    \/ nextStep
    \/ previousStep
    \/ goToFirstStep
    \/ goToLastStep

SolveSpec == InitSolve /\ [][NextSolve]_vars

(***************************************************************************)
(* PivotSpec: the solver on the worked examples, on one program of four    *)
(* variables on which the loop runs seven pivots, and on every small       *)
(* program whose constraint values are positive.                           *)
(***************************************************************************)
InitPivots ==
    \/ InitFrom(Examples \cup {ExampleFive})
    \/ InitOver(1..MaxVars, 1..MaxCons, ObjectiveValues, CoefficientValues,
                {"<="}, {1, MaxCoef})

PivotSpec == InitPivots /\ [][NextSolve]_vars

(***************************************************************************)
(* BuildSpec: the solver on programs whose constraints carry each of the   *)
(* three relations.                                                        *)
(***************************************************************************)
InitForms ==
    \/ InitOver(1..MaxVars, 1..MaxCons, ObjectiveValues, {-1, MaxCoef},
                Relations, {0, MaxCoef})
    \/ InitFrom(Examples)

BuildSpec == InitForms /\ [][NextSolve]_vars

(***************************************************************************)
(* ShapeSpec: the solver on programs in which a constraint may hold one    *)
(* coefficient less or one more than variablesCount.  No handler of the    *)
(* view builds such a program; it is the input the builder's shape         *)
(* precondition is about.                                                  *)
(***************************************************************************)
InitShape ==
    /\ \E n \in 1..MaxVars, m \in 1..MaxCons :
          /\ variablesCount = n
          /\ constraintsCount = m
          /\ objectiveType \in ObjectiveTypes
          /\ objectiveCoefficients \in [1..n -> ObjectiveValues]
          /\ constraints \in
                [1..m -> UNION {[coefficients : [1..k -> {-1, MaxCoef}],
                                 relation : {"<="},
                                 value : {0, MaxCoef}]
                                : k \in (n - 1)..(n + 1)}]
    /\ InitView

ShapeSpec == InitShape /\ [][NextSolve]_vars

(***************************************************************************)
(* dualProblem: part_001:67-103.  The dual view declares the same state    *)
(* (part_001:11-33) and the same two count handlers (part_001:36-64) as    *)
(* the simplex view, and no solver.                                        *)
(***************************************************************************)
\* dualProblem whose k-th constraint takes the k-th primal row as it is.
dualProblem_Untransposed ==
    [objectiveType |-> IF objectiveType = "maximize" THEN "minimize" ELSE "maximize",
     objectiveCoefficients |-> [i \in 1..Len(constraints) |-> constraints[i].value],
     constraints |->
         [k \in 1..variablesCount |->
             [coefficients |->
                  IF k <= Len(constraints)
                  THEN constraints[k].coefficients
                  ELSE [i \in 1..Len(constraints) |-> constraints[i].coefficients[k]],
              relation |-> IF objectiveType = "maximize" THEN ">=" ELSE "<=",
              value |-> objectiveCoefficients[k]]],
     variablesCount |-> constraintsCount,
     constraintsCount |-> variablesCount]

dualProblem ==
    LET dualObjectiveType ==
            IF objectiveType = "maximize" THEN "minimize" ELSE "maximize"
        dualVariablesCount == constraintsCount
        dualConstraintsCount == variablesCount
        dualObjectiveCoefficients ==
            [i \in 1..Len(constraints) |-> constraints[i].value]
        dualConstraints ==
            [k \in 1..dualConstraintsCount |->
                [coefficients |->
                     [i \in 1..Len(constraints) |-> constraints[i].coefficients[k]],
                 relation |-> IF objectiveType = "maximize" THEN ">=" ELSE "<=",
                 value |-> objectiveCoefficients[k]]]
    IN  [objectiveType |-> dualObjectiveType,
         objectiveCoefficients |-> dualObjectiveCoefficients,
         constraints |-> dualConstraints,
         variablesCount |-> dualVariablesCount,
         constraintsCount |-> dualConstraintsCount]

NextDual ==
    \/ \E increment \in BOOLEAN : updateConstraintsCount(increment)
    \/ \E increment \in BOOLEAN : updateVariablesCount(increment)

DualSpec == InitForms /\ [][NextDual]_vars

(***************************************************************************)
(* What the claims speak of.                                               *)
(***************************************************************************)
IsProgram(p) ==
    /\ variablesCount = p.variablesCount
    /\ constraintsCount = p.constraintsCount
    /\ objectiveType = p.objectiveType
    /\ objectiveCoefficients = p.objectiveCoefficients
    /\ constraints = p.constraints

\* A solve has returned.
Returned == pc = "idle" /\ solution.status \in {"optimal", "unbounded"}

LastStep == steps[Len(steps)]

HasPivot(step) == "pivotRow" \in DOMAIN step

\* Row 0 of t, right-hand side excluded, holds a negative entry.
HasNegative(t) == \E j \in 1..(Len(t[1]) - 1) : IsNum(t[1][j]) /\ t[1][j][1] < 0

\* The lowest column of row 0 holding a negative entry.
FirstNegative(t) ==
    CHOOSE j \in 1..(Len(t[1]) - 1) :
        /\ IsNum(t[1][j]) /\ t[1][j][1] < 0
        /\ \A k \in 1..(j - 1) : ~(IsNum(t[1][k]) /\ t[1][k][1] < 0)

\* No constraint row of t holds a strictly positive entry in column c.
NoPositive(t, c) == \A r \in 2..Len(t) : ~(IsNum(t[r][c]) /\ t[r][c][1] > 0)

(***************************************************************************)
(* C1.  Solving maximize 3 x1 + 2 x2 subject to x1 + x2 <= 4 and           *)
(* x1 + 3 x2 <= 6 returns status optimal, x1 = 4, x2 = 0 and               *)
(* objectiveValue 12.  The code returns objectiveValue -12.                *)
(***************************************************************************)
C1_ExampleOneOptimum ==
    (IsProgram(ExampleOne) /\ Returned)
        => solution = [status |-> "optimal",
                       solution |-> <<Num(4), Num(0)>>,
                       objectiveValue |-> Num(12)]

(***************************************************************************)
(* C2.  As claimed: when a constraint's coefficient count differs from     *)
(* variablesCount, a solve attempt fails before any tableau is built: no   *)
(* step is recorded and no solution is returned.                           *)
(***************************************************************************)
ShapeMismatch ==
    \E i \in 1..constraintsCount :
        Len(constraints[i].coefficients) # variablesCount

UnboundedAt(t) == HasNegative(t) /\ NoPositive(t, FirstNegative(t))

C3_Unbounded ==
    Returned =>
        /\ \A k \in 1..Len(steps) :
              UnboundedAt(steps[k].tableau) =>
                  /\ k >= Len(steps) - 1
                  /\ steps[k].tableau = LastStep.tableau
                  /\ ~HasPivot(steps[k])
                  /\ LastStep.description.label = "Problem is unbounded"
                  /\ ~HasPivot(LastStep)
                  /\ Len(steps) >= 2
                  /\ steps[Len(steps) - 1].tableau = LastStep.tableau
                  /\ steps[Len(steps) - 1].description.label # "Problem is unbounded"
                  /\ solution = [status |-> "unbounded"]
        /\ solution.status = "unbounded" => UnboundedAt(LastStep.tableau)
        /\ IsProgram(ExampleTwo) => solution.status = "unbounded"

C3_Witness ==
    /\ IsProgram(ExampleTwo)
    /\ Returned
    /\ solution = [status |-> "unbounded"]
    /\ Len(steps) = 4
    /\ UnboundedAt(LastStep.tableau)

(***************************************************************************)
(* C4.  As claimed: the number of recorded steps is 1 + 2k + 1 when the    *)
(* solve ends at an optimum after k pivots, and 1 + 2j + 1 when the j-th   *)
(* pivot attempt is the one that discovers unboundedness.  The loop's      *)
(* counter iteration is the number of the attempt: k = iteration - 1 at an *)
(* optimum, j = iteration at an unbounded return.                          *)
(***************************************************************************)
PivotsRecorded == Cardinality({k \in 1..Len(steps) : HasPivot(steps[k])})

C4_StepCountAsClaimed ==
    Returned =>
        /\ solution.status = "optimal" => Len(steps) = 1 + 2 * (iteration - 1) + 1
        /\ solution.status = "unbounded" => Len(steps) = 1 + 2 * iteration + 1

(***************************************************************************)
(* C4, as amended.  For every solve, a re-solve included, the number of    *)
(* recorded steps is 1 + 2k + 1 when the solve ends at an optimum after k  *)
(* pivots, and 1 + 2(j - 1) + 1 when the j-th pivot attempt (j >= 1) is    *)
(* the one that discovers unboundedness, that is after j - 1 pivots.       *)
(***************************************************************************)
C4_StepCount ==
    Returned =>
        /\ PivotsRecorded = iteration - 1
        /\ Len(steps) = 1 + 2 * (iteration - 1) + 1

C4_Witness ==
    /\ Returned
    /\ solution.status = "unbounded"
    /\ iteration = 2
    /\ Len(steps) = 4
    /\ variablesCount = 3

(***************************************************************************)
(* C5.  For every shape-consistent program the initial tableau has         *)
(* constraintsCount + 1 rows and variablesCount + constraintsCount + 1     *)
(* columns; row 0 holds -objectiveCoefficients[j] (maximize) or            *)
(* +objectiveCoefficients[j] (minimize) in column j < variablesCount and 0 *)
(* elsewhere; constraint row i + 1 holds constraints[i].coefficients, then *)
(* row i of the identity matrix, then constraints[i].value; whatever the   *)
(* relation of each constraint.                                            *)
(***************************************************************************)
C5_InitialTableau ==
    iteration > 0 =>
        LET t == steps[1].tableau
            n == variablesCount
            m == constraintsCount
        IN  /\ Len(t) = m + 1
            /\ \A r \in 1..(m + 1) : Len(t[r]) = n + m + 1
            /\ \A j \in 1..(n + m + 1) :
                  t[1][j] = IF j > n THEN <<0, 1>>
                            ELSE IF objectiveType = "maximize"
                                 THEN <<0 - objectiveCoefficients[j], 1>>
                                 ELSE <<objectiveCoefficients[j], 1>>
            /\ \A i \in 1..m :
                  /\ \A j \in 1..n : t[i + 1][j] = <<constraints[i].coefficients[j], 1>>
                  /\ \A k \in 1..m : t[i + 1][n + k] = IF k = i THEN <<1, 1>> ELSE <<0, 1>>
                  /\ t[i + 1][n + m + 1] = <<constraints[i].value, 1>>

C5_Witness ==
    /\ iteration > 0
    /\ variablesCount = 2
    /\ constraintsCount = 2
    /\ objectiveType = "minimize"
    /\ constraints[1].relation = ">="
    /\ constraints[2].relation = "="
    /\ steps[1].tableau[2][3] = One
    /\ steps[1].tableau[3][4] = One

(***************************************************************************)
(* C6.  The dual has the opposite objective type; its objective            *)
(* coefficients are the primal constraint values; it has exactly           *)
(* variablesCount constraints, the k-th holding the k-th column of the     *)
(* primal matrix, the value objectiveCoefficients[k] and the relation >=   *)
(* if the primal is maximize, <= otherwise.  The dual of maximize [5,4],   *)
(* rows [2,1] and [1,3], values [10,15] is minimize [10,15] with           *)
(* constraints [2,1] >= 5 and [1,3] >= 4.                                  *)
(***************************************************************************)
DualOfExampleThree ==
    [objectiveType |-> "minimize",
     objectiveCoefficients |-> <<10, 15>>,
     constraints |-> <<Row(<<2, 1>>, ">=", 5), Row(<<1, 3>>, ">=", 4)>>,
     variablesCount |-> 2,
     constraintsCount |-> 2]

C6_Dual ==
    LET d == dualProblem
    IN  /\ d.objectiveType # objectiveType
        /\ d.objectiveType \in ObjectiveTypes
        /\ Len(d.objectiveCoefficients) = constraintsCount
        /\ \A i \in 1..constraintsCount :
              d.objectiveCoefficients[i] = constraints[i].value
        /\ Len(d.constraints) = variablesCount
        /\ \A k \in 1..variablesCount :
              /\ Len(d.constraints[k].coefficients) = constraintsCount
              /\ \A i \in 1..constraintsCount :
                    d.constraints[k].coefficients[i] = constraints[i].coefficients[k]
              /\ d.constraints[k].value = objectiveCoefficients[k]
              /\ d.constraints[k].relation =
                     IF objectiveType = "maximize" THEN ">=" ELSE "<="
        /\ IsProgram(ExampleThree) => d = DualOfExampleThree

C6_Witness ==
    /\ variablesCount = 3
    /\ constraintsCount = 2
    /\ objectiveType = "minimize"
    /\ constraints[1].coefficients[2] # constraints[2].coefficients[1]
    /\ constraints[1].value # constraints[2].value
    /\ Len(dualProblem.constraints) = 3
    /\ dualProblem.constraints[1].coefficients =
           <<constraints[1].coefficients[1], constraints[2].coefficients[1]>>

(***************************************************************************)
(* C7.  As claimed: in every state reachable by solve and navigation       *)
(* calls, navigation before the first solve included, currentStep is never *)
(* negative and is at most steps.length - 1 whenever steps is non-empty.   *)
(***************************************************************************)
C7_NeverNegative ==
    /\ currentStep >= 0
    /\ steps # <<>> => currentStep <= Len(steps) - 1

(***************************************************************************)
(* C7, as amended.  In every state reachable by solve and navigation       *)
(* calls, 0 <= currentStep <= steps.length - 1 whenever steps is           *)
(* non-empty; while steps is still empty (before the first solve)          *)
(* goToLastStep sets currentStep to -1, so there currentStep is 0 or -1.   *)
(* nextStep at the last step and previousStep at the first step leave      *)
(* currentStep unchanged, and no navigation call changes steps or the      *)
(* solution.                                                               *)
(***************************************************************************)
StepInRange ==
    IF steps = <<>> THEN currentStep \in {-1, 0}
    ELSE currentStep \in 0..(Len(steps) - 1)

Navigation == nextStep \/ previousStep \/ goToFirstStep \/ goToLastStep

C7_Navigation ==
    [][/\ StepInRange
       /\ StepInRange'
       /\ (nextStep /\ currentStep = Len(steps) - 1) => currentStep' = currentStep
       /\ (previousStep /\ currentStep = 0) => currentStep' = currentStep
       /\ (goToLastStep /\ steps = <<>>) => currentStep' = -1
       /\ Navigation => (steps' = steps /\ solution' = solution)]_vars

C7_Witness ==
    /\ Len(steps) >= 4
    /\ currentStep = Len(steps) - 1
    /\ Returned

(***************************************************************************)
(* C8.  After any sequence of updateVariablesCount and                     *)
(* updateConstraintsCount calls, variablesCount = |objectiveCoefficients|  *)
(* >= 1, constraintsCount = |constraints| >= 1 and every constraint holds  *)
(* variablesCount coefficients; a remove at count 1 changes nothing.       *)
(***************************************************************************)
ShapeConsistent ==
    /\ variablesCount = Len(objectiveCoefficients)
    /\ variablesCount >= 1
    /\ constraintsCount = Len(constraints)
    /\ constraintsCount >= 1
    /\ \A i \in 1..Len(constraints) :
          Len(constraints[i].coefficients) = variablesCount

C8_Counts ==
    [][/\ ShapeConsistent
       /\ ShapeConsistent'
       /\ (variablesCount = 1 /\ updateVariablesCount(FALSE)) => UNCHANGED vars
       /\ (constraintsCount = 1 /\ updateConstraintsCount(FALSE)) => UNCHANGED vars]_vars

C8_Witness ==
    /\ variablesCount = 1
    /\ constraintsCount = 3
    /\ Len(constraints[3].coefficients) = 1
    /\ Len(objectiveCoefficients) = 1

(***************************************************************************)
(* C9.  For every recorded tableau and every (row, col) whose entry is not *)
(* zero, after performPivot(tableau, row, col) column col is a unit        *)
(* column: 1 in the pivot row and 0 in every other row, row 0 included;    *)
(* and every pivot the solve loop applies has a strictly positive pivot    *)
(* element.  The tableau looked at is that of the step shown, which the    *)
(* navigation moves over every recorded step.                              *)
(***************************************************************************)
UnitColumn(t, row, col) ==
    \A r \in 1..Len(t) : t[r][col] = IF r = row THEN <<1, 1>> ELSE <<0, 1>>

C9_UnitColumn ==
    (Returned /\ currentStep >= 0) =>
        LET step == steps[currentStep + 1]
            t == step.tableau
        IN  /\ \A row \in 1..Len(t), col \in 1..Len(t[1]) :
                  t[row][col] # <<0, 1>> => UnitColumn(performPivot(t, row, col), row, col)
            /\ HasPivot(step) =>
                  /\ t[step.pivotRow][step.pivotCol][1] > 0
                  /\ t[step.pivotRow][step.pivotCol][2] > 0
                  /\ UnitColumn(steps[currentStep + 2].tableau,
                                step.pivotRow, step.pivotCol)

C9_Witness ==
    /\ Returned
    /\ currentStep >= 1
    /\ HasPivot(steps[currentStep + 1])
    /\ steps[currentStep + 1].tableau[steps[currentStep + 1].pivotRow]
                                     [steps[currentStep + 1].pivotCol] = <<2, 1>>
    /\ steps[currentStep + 1].tableau[1][steps[currentStep + 1].pivotCol] = <<-1, 1>>
    /\ \E row \in 2..Len(steps[1].tableau) : steps[currentStep + 1].tableau[row][1][1] < 0

(***************************************************************************)
(* C10.  On every iteration of the solve loop the pivot column is the      *)
(* lowest column of row 0, right-hand side excluded, whose entry is        *)
(* strictly negative; the pivot row is, among the constraint rows with a   *)
(* strictly positive entry in that column, the lowest row attaining the    *)
(* minimum of RHS / entry; and the loop continues iff row 0 holds a        *)
(* negative entry.                                                         *)
(***************************************************************************)
\* RHS[r] / t[r][c] <= (or <) RHS[q] / t[q][c], both entries positive.
RatioLe(t, c, r, q) ==
    LET last == Len(t[1])
    IN  t[r][last][1] * t[r][c][2] * t[q][c][1] * t[q][last][2]
            <= t[q][last][1] * t[q][c][2] * t[r][c][1] * t[r][last][2]

Positive(t, r, c) == t[r][c][1] > 0 /\ t[r][c][2] > 0

C10_PivotChoice ==
    Returned =>
        \A k \in 1..Len(steps) :
            LET step == steps[k]
                t == step.tableau
            IN  /\ HasPivot(step) =>
                      /\ HasNegative(t)
                      /\ step.pivotCol = FirstNegative(t)
                      /\ step.pivotRow \in 2..Len(t)
                      /\ Positive(t, step.pivotRow, step.pivotCol)
                      /\ \A q \in 2..Len(t) :
                            Positive(t, q, step.pivotCol) =>
                                /\ RatioLe(t, step.pivotCol, step.pivotRow, q)
                                /\ q < step.pivotRow =>
                                       ~RatioLe(t, step.pivotCol, q, step.pivotRow)
                /\ (~HasPivot(step) /\ k < Len(steps)) =>
                      (HasNegative(t) <=>
                           (HasPivot(steps[k + 1])
                            \/ steps[k + 1].description.label = "Problem is unbounded"))
                /\ k = Len(steps) =>
                      (HasNegative(t) <=> solution.status = "unbounded")

C10_Witness ==
    /\ Returned
    /\ constraintsCount = 2
    /\ \E k \in 1..Len(steps) :
          /\ HasPivot(steps[k])
          /\ steps[k].pivotCol = 2
          /\ steps[k].pivotRow = 2
          /\ Positive(steps[k].tableau, 3, 2)
          /\ RatioLe(steps[k].tableau, 2, 3, 2)
          /\ RatioLe(steps[k].tableau, 2, 2, 3)

(***************************************************************************)
(* C11.  The steps recorded by one solve are: the initial tableau first;   *)
(* then for each pivot, in order, a pre-pivot step that carries the pivot  *)
(* (row, col) and whose tableau equals that of the step just before it,    *)
(* immediately followed by a post-pivot step without a pivot whose tableau *)
(* is the result of applying that pivot; then exactly one last step        *)
(* (optimal or unbounded) without a pivot whose tableau equals that of the *)
(* step just before it.  A pivot pair is present on the pre-pivot steps    *)
(* and on no other step.                                                   *)
(***************************************************************************)
LastLabels ==
    {"Final tableau - Optimal solution found", "Problem is unbounded"}

C11_StepOrder ==
    Returned =>
        LET last == Len(steps)
        IN  /\ last >= 2
            /\ last % 2 = 0
            /\ steps[1].description = Description("Initial tableau", <<>>)
            /\ \A k \in 1..last : HasPivot(steps[k]) <=> (k % 2 = 0 /\ k < last)
            /\ \A k \in 1..last :
                  HasPivot(steps[k]) =>
                      /\ steps[k].tableau = steps[k - 1].tableau
                      /\ steps[k + 1].tableau # steps[k].tableau
                      /\ steps[k + 1].tableau =
                             performPivot(steps[k].tableau, steps[k].pivotRow,
                                          steps[k].pivotCol)
                      /\ UnitColumn(steps[k + 1].tableau, steps[k].pivotRow,
                                    steps[k].pivotCol)
                      /\ steps[k].description =
                             Description("Iteration: Selected pivot element at row, column",
                                         <<k \div 2, steps[k].pivotRow, steps[k].pivotCol>>)
                      /\ steps[k + 1].description =
                             Description("Iteration: After pivot operation", <<k \div 2>>)
            /\ steps[last].tableau = steps[last - 1].tableau
            /\ \A k \in 1..last : steps[k].description.label \in LastLabels <=> k = last
            /\ steps[last].description.label =
                   IF solution.status = "optimal"
                   THEN "Final tableau - Optimal solution found"
                   ELSE "Problem is unbounded"

C11_Witness ==
    /\ Returned
    /\ Len(steps) = 6
    /\ HasPivot(steps[2])
    /\ HasPivot(steps[4])
    /\ <<steps[2].pivotRow, steps[2].pivotCol>> # <<steps[4].pivotRow, steps[4].pivotCol>>
    /\ steps[3].tableau = steps[4].tableau
    /\ steps[5].tableau = steps[6].tableau
    /\ steps[2].tableau # steps[3].tableau

(***************************************************************************)
(* C12.  As claimed: for every shape-consistent program with all           *)
(* constraint values >= 0 that is non-degenerate (no ratio-test tie and no *)
(* zero minimum ratio occurs during the solve), the solve loop ends with   *)
(* status optimal or unbounded after at most variablesCount +              *)
(* constraintsCount pivots.                                                *)
(***************************************************************************)
ValuesNonNegative == \A i \in 1..constraintsCount : constraints[i].value >= 0

\* No recorded pivot was chosen on a tie or at a zero ratio.
NonDegenerate ==
    \A k \in 1..Len(steps) :
        HasPivot(steps[k]) =>
            LET t == steps[k].tableau
                r == steps[k].pivotRow
                c == steps[k].pivotCol
            IN  /\ t[r][Len(t[1])][1] # 0
                /\ \A q \in 2..Len(t) :
                      (q # r /\ Positive(t, q, c)) => ~RatioLe(t, c, q, r)

Solved == iteration > 0

C12_PivotBoundAsClaimed ==
    (Solved /\ ShapeConsistent /\ ValuesNonNegative /\ NonDegenerate) =>
        /\ Returned
        /\ PivotsRecorded <= variablesCount + constraintsCount

(***************************************************************************)
(* C12, as amended.  For every shape-consistent program with all           *)
(* constraint values >= 0 that is non-degenerate, the solve loop ends with *)
(* status optimal or unbounded after at most C(n + m, m) - 1 pivots, where *)
(* n = variablesCount and m = constraintsCount (no basis is visited        *)
(* twice); with n <= 2 that is at most n + m pivots, with more variables   *)
(* n + m can be exceeded: the program of four variables and two            *)
(* constraints above takes seven pivots.                                   *)
(***************************************************************************)
RECURSIVE Binomial(_, _)
Binomial(n, k) ==
    IF k = 0 \/ k = n THEN 1
    ELSE Binomial(n - 1, k - 1) + Binomial(n - 1, k)

C12_Termination ==
    (Solved /\ ShapeConsistent /\ ValuesNonNegative /\ NonDegenerate) =>
        /\ Returned
        /\ PivotsRecorded <=
               Binomial(variablesCount + constraintsCount, constraintsCount) - 1
        /\ variablesCount <= 2 =>
               PivotsRecorded <= variablesCount + constraintsCount
        /\ IsProgram(ExampleFive) =>
               (solution.status = "optimal" /\ PivotsRecorded = 7)

C12_Witness ==
    /\ IsProgram(ExampleFive)
    /\ Returned
    /\ ValuesNonNegative
    /\ NonDegenerate
    /\ PivotsRecorded = 7
    /\ PivotsRecorded > variablesCount + constraintsCount

(***************************************************************************)
(* C13.  For every shape-consistent program with all constraint values     *)
(* >= 0, whenever solveSimplexMethod returns status optimal, the returned  *)
(* values x are feasible: x[j] >= 0 for every variable j, and the sum over *)
(* j of constraints[i].coefficients[j] * x[j] is <= constraints[i].value   *)
(* for every constraint i (constraints read as <=).  The code returns      *)
(* x = (2, 2) for maximize -x1 - x2 subject to x1 + x2 <= 2.               *)
(***************************************************************************)
RAdd(a, b) == RSub(a, RNeg(b))

\* coefficients[1] * x[1] + ... + coefficients[j] * x[j].
RECURSIVE Dot(_, _, _)
Dot(coefficients, x, j) ==
    IF j = 0 THEN Zero
    ELSE RAdd(Dot(coefficients, x, j - 1), RMul(Num(coefficients[j]), x[j]))

Optimal == Returned /\ solution.status = "optimal"

C13_Feasible ==
    (Optimal /\ ShapeConsistent /\ ValuesNonNegative) =>
        /\ \A j \in 1..variablesCount : RLe(Zero, solution.solution[j])
        /\ \A i \in 1..constraintsCount :
              RLe(Dot(constraints[i].coefficients, solution.solution, variablesCount),
                  Num(constraints[i].value))

(***************************************************************************)
(* C14.  For every shape-consistent program, maximize or minimize,         *)
(* whenever solveSimplexMethod returns status optimal, the returned        *)
(* objectiveValue equals the objective evaluated at the returned values:   *)
(* the sum over j of objectiveCoefficients[j] * solution[j].  The code     *)
(* returns the opposite number after a pivot: -12 for maximize 3 x1 + 2 x2 *)
(* at (4, 0), and 2 for minimize -x1 at x1 = 2.                            *)
(***************************************************************************)
C14_ObjectiveValue ==
    (Optimal /\ ShapeConsistent) =>
        solution.objectiveValue =
            Dot(objectiveCoefficients, solution.solution, variablesCount)

(***************************************************************************)
(* C15.  For every shape-consistent program whose constraint values are    *)
(* all >= 0, the right-hand side of every constraint row (rows 1..lastRow, *)
(* last column) is >= 0 in every tableau recorded during the solve: each   *)
(* pivot chosen by findPivotColumn and findPivotRow and applied by         *)
(* performPivot keeps the constraint right-hand sides non-negative.        *)
(***************************************************************************)
RightHandSidesNonNegative(t) ==
    \A r \in 2..Len(t) : RLe(Zero, t[r][Len(t[1])])

C15_RightHandSides ==
    (Solved /\ ShapeConsistent /\ ValuesNonNegative) =>
        \A k \in 1..Len(steps) : RightHandSidesNonNegative(steps[k].tableau)

\* A solve of two pivots in which the ratio test passed over a lower row
\* with a larger ratio, and a right-hand side changed.
C15_Witness ==
    /\ Returned
    /\ ShapeConsistent
    /\ ValuesNonNegative
    /\ PivotsRecorded >= 2
    /\ \E k \in 1..Len(steps) :
          /\ HasPivot(steps[k])
          /\ steps[k].pivotRow = 3
          /\ Positive(steps[k].tableau, 2, steps[k].pivotCol)
          /\ ~RatioLe(steps[k].tableau, steps[k].pivotCol, 2, 3)
          /\ steps[k + 1].tableau[2][Len(steps[k].tableau[1])] #
                 steps[k].tableau[2][Len(steps[k].tableau[1])]
          /\ RightHandSidesNonNegative(steps[k + 1].tableau)

====
